---- MODULE Spec2Model ----
(***************************************************************************)
(* Client side of the streaming tarot-reading protocol:                    *)
(*   frontend/app/page.tsx  (HomePage: React state, refs, effects, timers, *)
(*                           handleSubmit and its four stream callbacks)   *)
(*   frontend/lib/api.ts    (tarotAPI.createReadingStream: the SSE loop    *)
(*                           that turns the response into callbacks)       *)
(* together with                                                           *)
(*   the page's timers with their delays (TimedSpec),                      *)
(*   the token storage and the 401 interceptor of apiClient in api.ts and  *)
(*   AuthProvider.checkAuth in frontend/app/profile/page.tsx (AuthSpec),   *)
(*   the server-side reading orchestrator, whose stage machine is          *)
(*   described in the design specification, sections 4.1, 5 and 7          *)
(*   (OrchSpec).                                                           *)
(*                                                                         *)
(* Text is a sequence of character codes, so slicing and concatenation are *)
(* computed as the code computes them.  One JavaScript task (a callback    *)
(* call, a timer firing, a form submit) together with the React render and *)
(* effects it causes is one atomic step.                                   *)
(***************************************************************************)
EXTENDS Naturals, Sequences, FiniteSets, TLC

VARIABLES
    page,       \* HomePage: useState values, refs, pending timers, closure
    stream,     \* position of createReadingStream for the current submit
    nEvents,    \* events dispatched so far, over all sessions
    sessions,   \* number of submits so far
    lastEvent,  \* the event dispatched by the latest Deliver step
    hist,       \* per-session history (what the stream has carried so far)
    twin,       \* a second, fresh HomePage fed the same events (replay)
    tape,       \* the events fed to page, in order (replay)
    twinPos,    \* how many events of tape the twin has consumed (replay)
    notes,      \* window notifications dispatched by the page, per pending id
    clock,      \* remaining time of the page's timers, elapsed times
    srv,        \* the reading orchestrator of one session (server side)
    auth,       \* localStorage tokens and the 401 interceptor of apiClient
    form,       \* HomePage: URL parameter, profile and the request built from them
    sse,        \* createReadingStream: the response body and the read loop
    sidebar     \* Sidebar: pending items, history requests

vars == <<page, stream, nEvents, sessions, lastEvent, hist, twin, tape, twinPos,
          notes, clock, srv, auth, form, sse, sidebar>>

----------------------------------------------------------------------------
(* Bounds *)

MaxEvents == 3
MaxSessions == 2
MaxReplayEvents == 2
MaxTypingEvents == 3
MaxFragments == 2
MaxRequests == 2
MaxTokens == 2
MaxAge == 40
MaxTimedEvents == 2
MaxPriorEvents == 1
MaxSseLines == 3
MaxReadings == 3
MaxListRequests == 2
TicksPerSecond == 3

(* Program constants *)

TypingChunk == 5
ThreeCardCount == 3
CelticCrossCount == 10

----------------------------------------------------------------------------
(* Text and list helpers *)

Min(a, b) == IF a < b THEN a ELSE b

\* String.prototype.slice(0, n) / Array.prototype.slice(0, n)
SliceTo(s, n) == SubSeq(s, 1, Min(n, Len(s)))

\* String.prototype.slice(n)
SliceFrom(s, n) == SubSeq(s, Min(n, Len(s)) + 1, Len(s))

IsPrefix(s, t) == Len(s) <= Len(t) /\ SubSeq(t, 1, Len(s)) = s

\* insert card c into the already sorted list s, after every card whose
\* position_order is not greater (Array.prototype.sort is stable)
RECURSIVE InsertCard(_, _)
InsertCard(c, s) ==
    IF s = <<>> THEN <<c>>
    ELSE IF c.position_order < Head(s).position_order THEN <<c>> \o s
    ELSE <<Head(s)>> \o InsertCard(c, Tail(s))

\* [...cards].sort((a, b) => a.position_order - b.position_order)
RECURSIVE sortedCards(_)
sortedCards(cards) ==
    IF cards = <<>> THEN <<>>
    ELSE InsertCard(cards[Len(cards)], sortedCards(SubSeq(cards, 1, Len(cards) - 1)))

----------------------------------------------------------------------------
(* The events a response stream can carry *)

NoText == <<>>
Null == "null"

Card(id, order) == [card_id |-> id, position_order |-> order]

CardLists ==
    { << Card("A", 0), Card("B", 1), Card("C", 2) >>,
      << Card("B", 1), Card("A", 0), Card("C", 2) >> }

InterpretationTexts == { <<>>, <<1, 2, 3>>, <<4, 5, 6, 7>> }
ImageryTexts == { <<>>, <<1>>, <<2, 3>> }
FallbackTexts == { <<>>, <<9>> }
ReadingIds == { Null, "r1" }

InformationalSteps == { "started", "rag_card_progress", "rag_first_card_ready" }
StageSteps == { "question_analysis", "pattern_analyzed", "rag_retrieved" }

Ev(kind, step, text, cards, id) ==
    [kind |-> kind, step |-> step, text |-> text, cards |-> cards, id |-> id]

NoEvent == Ev("none", "", NoText, <<>>, Null)

ProgressEvents ==
    { Ev("progress", s, NoText, <<>>, Null) :
        s \in InformationalSteps \cup StageSteps \cup {"interpretation_started"} }
    \cup { Ev("progress", "cards_selected", NoText, cl, Null) : cl \in CardLists }
    \cup { Ev("progress", "imagery_generated", t, <<>>, Null) : t \in FallbackTexts }

Events ==
    ProgressEvents
    \cup { Ev("imagery_chunk", "", t, <<>>, Null) : t \in ImageryTexts }
    \cup { Ev("interpretation", "", t, <<>>, Null) : t \in InterpretationTexts }
    \cup { Ev("complete", "", NoText, <<>>, id) : id \in ReadingIds }
    \cup { Ev("error", "", <<8>>, <<>>, Null) }

----------------------------------------------------------------------------
(* HomePage state *)

UnknownError == <<0>>      \* 'Unknown error'
FetchErrorText == <<7>>    \* err.message of a rejected or broken request

\* the values useState / useRef are initialised with, no timer pending
InitPage ==
    [ currentStep            |-> "idle",
      error                  |-> NoText,
      cards                  |-> <<>>,
      displayedCards         |-> <<>>,
      spreadType             |-> "three_card",
      readingId              |-> Null,
      imageryDescription     |-> NoText,
      interpretationDisplay  |-> NoText,
      showImageryBox         |-> FALSE,
      showInterpretationBox  |-> FALSE,
      allCardsDisplayed      |-> FALSE,
      interpretationBuffer   |-> NoText,   \* interpretationBufferRef.current
      typingInterval         |-> FALSE,    \* typingIntervalRef.current # null
      imageryBoxDelay        |-> FALSE,    \* the 1 s setTimeout of the reveal effect
      imageryBoxSoon         |-> FALSE,    \* setTimeout(() => setShowImageryBox(true), 0)
      interpretationBoxSoon  |-> FALSE,    \* setTimeout(() => setShowInterpretationBox(true), 0)
      \* values of the render in which the running handleSubmit was created
      capImageryDescription    |-> NoText,
      capShowInterpretationBox |-> FALSE,
      capInterpretationDisplay |-> NoText ]

\* The effects that run after a render and need no timer:
\*  - reveal effect: cards empty => setDisplayedCards([])
\*  - interpretation-box effect: step interpretation_started => show the box
Effects(st) ==
    LET s1 == IF st.cards = <<>> THEN [st EXCEPT !.displayedCards = <<>>] ELSE st
    IN  IF s1.currentStep = "interpretation_started" /\ ~s1.showInterpretationBox
        THEN [s1 EXCEPT !.showInterpretationBox = TRUE]
        ELSE s1

\* handleSubmit up to the call of createReadingStream: the state reset.  The
\* callbacks passed to createReadingStream close over the state of the
\* render handleSubmit belongs to, i.e. the state before the reset.
handleSubmit(st) ==
    [ st EXCEPT
        !.currentStep = "question_analysis",
        !.error = NoText,
        !.cards = <<>>,
        !.displayedCards = <<>>,
        !.typingInterval = FALSE,
        !.interpretationBuffer = NoText,
        !.imageryDescription = NoText,
        !.interpretationDisplay = NoText,
        !.showImageryBox = FALSE,
        !.showInterpretationBox = FALSE,
        !.allCardsDisplayed = FALSE,
        !.capImageryDescription = st.imageryDescription,
        !.capShowInterpretationBox = st.showInterpretationBox,
        !.capInterpretationDisplay = st.interpretationDisplay ]

\* a catch block that reports the error but leaves the step as it is
handleSubmitCatchKeepsStep(st) == [ st EXCEPT !.error = FetchErrorText ]

\* the catch block of handleSubmit
handleSubmitCatch(st) ==
    [ st EXCEPT !.error = FetchErrorText, !.currentStep = "idle" ]

\* onProgress, branch step === 'imagery_chunk' && data.text
imageryChunk(st, text) ==
    [ st EXCEPT
        !.imageryDescription = st.imageryDescription \o text,
        !.imageryBoxSoon = IF st.imageryDescription = NoText THEN TRUE ELSE @ ]

\* onProgress, branch step === 'cards_selected' && (data.selected_cards || data.cards)
cardsSelected(st, cardData) ==
    [ st EXCEPT
        !.cards = cardData,
        !.spreadType = IF Len(cardData) = ThreeCardCount THEN "three_card"
                       ELSE IF Len(cardData) = CelticCrossCount THEN "celtic_cross"
                       ELSE @,
        !.displayedCards = IF Len(cardData) > 0 THEN <<cardData[1]>> ELSE @ ]

\* onProgress, branch step === 'imagery_generated'
imageryGenerated(st, fallback) ==
    IF fallback # NoText /\ st.capImageryDescription = NoText
    THEN [st EXCEPT !.imageryDescription = fallback]
    ELSE st

\* onProgress, branch step === 'interpretation_started'
interpretationStarted(st) ==
    [ st EXCEPT
        !.currentStep = "interpretation_started",
        !.interpretationBoxSoon = IF ~st.capShowInterpretationBox THEN TRUE ELSE @ ]

\* the first callback of createReadingStream: (step, data) => ...
onProgress(st, step, data) ==
    IF step = "imagery_chunk" /\ data.text # NoText
    THEN imageryChunk(st, data.text)
    ELSE LET s1 == [st EXCEPT !.currentStep = step]
         IN  IF step = "cards_selected" THEN cardsSelected(s1, data.cards)
             ELSE IF step = "imagery_generated" THEN imageryGenerated(s1, data.text)
             ELSE IF step = "interpretation_started" THEN interpretationStarted(s1)
             ELSE s1

\* startInterpretationTyping: start the interval unless one is running
startInterpretationTyping(st) ==
    IF st.typingInterval THEN st ELSE [st EXCEPT !.typingInterval = TRUE]

\* the second callback: (text) => ...
onInterpretation(st, text) ==
    startInterpretationTyping(
        [ st EXCEPT
            !.currentStep = "interpretation_streaming",
            !.interpretationBoxSoon =
                IF st.capInterpretationDisplay = NoText THEN TRUE ELSE @,
            !.interpretationBuffer = st.interpretationBuffer \o text ])

\* onComplete that also stops the typing interval
onCompleteStopsTyping(st, id) ==
    [ st EXCEPT
        !.currentStep = "complete",
        !.readingId = IF id # Null THEN id ELSE @,
        !.typingInterval = FALSE ]

\* the third callback: (result) => ...
onComplete(st, id) ==
    [ st EXCEPT
        !.currentStep = "complete",
        !.readingId = IF id # Null THEN id ELSE @ ]

\* onError without setInterpretationDisplay('')
onErrorKeepsDisplay(st, errorMsg) ==
    [ st EXCEPT
        !.typingInterval = FALSE,
        !.interpretationBuffer = NoText,
        !.error = errorMsg,
        !.currentStep = "idle" ]

\* the fourth callback: (errorMsg) => ...
onError(st, errorMsg) ==
    [ st EXCEPT
        !.typingInterval = FALSE,
        !.interpretationBuffer = NoText,
        !.interpretationDisplay = NoText,
        !.error = errorMsg,
        !.currentStep = "idle" ]

\* createReadingStream, the body of the loop for one `event:` / `data:` pair
Dispatch(st, ev) ==
    IF ev.kind = "progress" THEN onProgress(st, ev.step, ev)
    ELSE IF ev.kind = "imagery_chunk" THEN onProgress(st, "imagery_chunk", ev)
    ELSE IF ev.kind = "interpretation" THEN onInterpretation(st, ev.text)
    ELSE IF ev.kind = "error"
         THEN onError(st, IF ev.text # NoText THEN ev.text ELSE UnknownError)
    ELSE IF ev.kind = "complete" THEN onComplete(st, ev.id)
    ELSE st

\* typingTick that cuts the buffer at the fixed chunk size plus one
typingTickDropsChar(st) ==
    IF st.interpretationBuffer = NoText
    THEN [st EXCEPT !.typingInterval = FALSE]
    ELSE LET nextChunk == SliceTo(st.interpretationBuffer, TypingChunk)
         IN  [ st EXCEPT
                 !.interpretationBuffer = SliceFrom(st.interpretationBuffer, TypingChunk + 1),
                 !.interpretationDisplay = st.interpretationDisplay \o nextChunk ]

\* the callback of the setInterval in startInterpretationTyping
typingTick(st) ==
    IF st.interpretationBuffer = NoText
    THEN [st EXCEPT !.typingInterval = FALSE]
    ELSE LET nextChunk == SliceTo(st.interpretationBuffer, TypingChunk)
         IN  [ st EXCEPT
                 !.interpretationBuffer = SliceFrom(st.interpretationBuffer, Len(nextChunk)),
                 !.interpretationDisplay = st.interpretationDisplay \o nextChunk ]

\* the reveal effect arms its timer in every render where this holds
RevealArmed(st) ==
    st.cards # <<>> /\ Len(st.displayedCards) < Len(st.cards)

\* the callback of the setTimeout in the reveal effect
revealTimer(st) ==
    LET sorted == sortedCards(st.cards)
        nextIndex == Len(st.displayedCards)
        newDisplayedCards == SliceTo(sorted, nextIndex + 1)
        last == Len(newDisplayedCards) = Len(sorted) /\ ~st.allCardsDisplayed
    IN  [ st EXCEPT
            !.displayedCards = newDisplayedCards,
            !.allCardsDisplayed = IF last THEN TRUE ELSE @,
            !.imageryBoxDelay = IF last THEN TRUE ELSE @ ]

\* the interpretation-box effect arms its 1 s timer in every render where this holds
InterpretationBoxArmed(st) ==
    st.currentStep = "imagery_generated" /\ ~st.showInterpretationBox

interpretationBoxTimer(st) == [st EXCEPT !.showInterpretationBox = TRUE]

imageryBoxDelayFire(st) ==
    [st EXCEPT !.showImageryBox = TRUE, !.imageryBoxDelay = FALSE]

imageryBoxSoonFire(st) ==
    [st EXCEPT !.showImageryBox = TRUE, !.imageryBoxSoon = FALSE]

interpretationBoxSoonFire(st) ==
    [st EXCEPT !.showInterpretationBox = TRUE, !.interpretationBoxSoon = FALSE]

\* no timer of the page is pending
Quiescent(st) ==
    /\ ~st.typingInterval
    /\ ~RevealArmed(st)
    /\ ~InterpretationBoxArmed(st)
    /\ ~st.imageryBoxDelay
    /\ ~st.imageryBoxSoon
    /\ ~st.interpretationBoxSoon

----------------------------------------------------------------------------
(* One session after another on one page *)

InitHist ==
    [ recvInterp     |-> NoText,   \* interpretation texts received, concatenated
      recvImagery    |-> NoText,   \* imagery_chunk texts received, concatenated
      errorSeen      |-> FALSE,    \* an error event was dispatched
      completeSeen   |-> FALSE,    \* a complete event was dispatched
      completeEarly  |-> FALSE,    \* complete was dispatched while text was still buffered
      nCardsSelected |-> 0,        \* progress(cards_selected) events dispatched
      typingStopped  |-> FALSE ]   \* the typing interval cleared itself on an empty buffer

Record(h, st, ev) ==
    [ h EXCEPT
        !.recvInterp = IF ev.kind = "interpretation" THEN @ \o ev.text ELSE @,
        !.recvImagery = IF ev.kind = "imagery_chunk" THEN @ \o ev.text ELSE @,
        !.errorSeen = @ \/ ev.kind = "error",
        !.completeSeen = @ \/ ev.kind = "complete",
        !.completeEarly = @ \/ (ev.kind = "complete" /\ st.interpretationBuffer # NoText),
        !.nCardsSelected = IF ev.kind = "progress" /\ ev.step = "cards_selected"
                           THEN @ + 1 ELSE @ ]

\* window notifications dispatched so far, per pending id (the number of the
\* submit that generated it), and pending setTimeout(0) readingCreated callbacks
InitNotes ==
    [ readingPending |-> [i \in 1..MaxSessions |-> 0],
      readingFailed  |-> [i \in 1..MaxSessions |-> 0],
      readingCreated |-> [i \in 1..MaxSessions |-> 0],
      createdSoon    |-> [i \in 1..MaxSessions |-> 0] ]

\* window.dispatchEvent(new CustomEvent(name, {detail: {pendingId, ...}}))
dispatchEvent(n, name, pendingId) == [n EXCEPT ![name][pendingId] = @ + 1]

\* notifications of the stream callbacks: onError dispatches readingFailed,
\* onComplete schedules readingCreated with setTimeout(..., 0)
notifyCallback(n, ev, pendingId) ==
    IF ev.kind = "error" THEN dispatchEvent(n, "readingFailed", pendingId)
    ELSE IF ev.kind = "complete" THEN dispatchEvent(n, "createdSoon", pendingId)
    ELSE n

otherVars == <<clock, srv, auth, form, sse, sidebar>>
\* pending setTimeout callbacks with the ticks left until they are due, and
\* the time elapsed since the moments the page's delays are counted from
InitClock ==
    [ reveal     |-> {},     \* the timer of the reveal effect
      interpBox  |-> {},     \* the 1 s timer of the interpretation-box effect
      imageryBox |-> {},     \* the 1 s timers started at the last reveal, never cleared
      sinceCards |-> 0,      \* since the last cards_selected event
      sinceLast  |-> 0,      \* since allCardsDisplayed was set
      sinceStep  |-> 0 ]     \* since currentStep last changed
InitSrv ==
    [ pc         |-> "idle",
      id         |-> "s1",       \* session identifier, generated before any stage runs
      nCards     |-> 0,          \* size of the resolved spread
      out        |-> <<>>,       \* events emitted on the response stream, in order
      cardsDone  |-> 0,          \* per-card retrieval calls completed
      firstReady |-> FALSE,      \* rag_first_card_ready has been emitted
      bgMethod   |-> "idle",     \* background task: divination-method retrieval
      bgRelation |-> "idle",     \* background task: card-relationship retrieval
      nImagery   |-> 0,          \* imagery fragments emitted
      nInterp    |-> 0,          \* interpretation fragments emitted
      store      |-> {},         \* identifiers of persisted reading records
      connected  |-> TRUE,
      overlapped |-> FALSE ]     \* history: imagery ended while a background task ran

\* localStorage with no session
ClearedStore ==
    [ access_token  |-> 0,       \* 0: key absent, k > 0: token number k
      refresh_token |-> 0,
      user_id       |-> FALSE,
      user_email    |-> FALSE,
      last_activity |-> FALSE ]  \* key present; its age is auth.age

\* an axios request config and the state of its promise
IdleRequest ==
    [ st     |-> "idle",   \* idle, inflight, refreshing, queued, ok, rejected
      retry  |-> FALSE,    \* originalRequest._retry
      url    |-> "me",     \* "me" (/api/auth/me), "signin", "signout", "profile"
      token  |-> 0,        \* Authorization header
      origin |-> "api" ]   \* "checkAuth" when issued by AuthProvider.checkAuth

InitAuth ==
    [ store        |-> ClearedStore,
      age          |-> 0,        \* days since the stored last_activity
      isRefreshing |-> FALSE,
      failedQueue  |-> {},
      req          |-> [r \in 1..MaxRequests |-> IdleRequest],
      issued       |-> 0,        \* the token issued last, 0: none yet
      user         |-> FALSE,    \* AuthProvider: user # null
      loading      |-> TRUE,     \* AuthProvider: loading
      checked      |-> FALSE,    \* AuthProvider's effect has run, its listener is registered
      route        |-> "protected",  \* the page shown: "protected", "login", "callback"
      confirmed    |-> FALSE,    \* the callback page has handled its link
      signedOut    |-> FALSE,    \* history: signout() settled and no sign-in since
      last         |-> "init" ]  \* history: the last step taken

\* a property that is undefined and left out by JSON.stringify
Undefined == "undefined"

\* no profile loaded: useAuth().profile is null
NoProfile == [present |-> FALSE, preferred_spread |-> Undefined, language |-> Undefined]

\* the home page before a URL is opened and before a submit
InitForm ==
    [ selectedSpread |-> Null,     \* searchParams.get('spread')
      profile        |-> NoProfile,
      sent           |-> FALSE,    \* createReadingStream was called
      request        |-> [ user_selected_spread |-> Undefined,
                           source_page          |-> "home",
                           user_profile         |-> NoProfile ] ]

\* createReadingStream before the body is read
InitSse ==
    [ st           |-> "closed",   \* closed, reading, done
      body         |-> <<>>,       \* what the server sends, not read yet
      consumed     |-> <<>>,       \* what the reads have returned so far
      buffer       |-> <<>>,       \* let buffer = ''
      currentEvent |-> <<>>,       \* let currentEvent = ''
      calls        |-> <<>>,       \* history: the callbacks invoked, in order
      cut          |-> FALSE ]     \* history: a read ended inside a line

\* Sidebar after mount, and the readings the server holds for the user
InitSidebar ==
    [ user            |-> FALSE,   \* useAuth().user # null
      pendingReadings |-> <<>>,    \* items [id, question], newest first
      listRequests    |-> 0,       \* listReadings calls not answered yet
      stored          |-> {},      \* questions of the readings in the database
      idle            |-> TRUE,    \* the home page shows its form
      running         |-> 0,       \* pendingId of the reading in progress, 0: none
      question        |-> "",      \* the question of the reading in progress
      issued          |-> 0,       \* pendingIds generated so far
      last            |-> [op |-> "mount", id |-> 0] ]

Init ==
    /\ page = InitPage
    /\ stream = "none"
    /\ nEvents = 0
    /\ sessions = 0
    /\ lastEvent = NoEvent
    /\ hist = InitHist
    /\ twin = InitPage
    /\ tape = <<>>
    /\ twinPos = 0
    /\ notes = InitNotes
    /\ clock = InitClock
    /\ srv = InitSrv
    /\ auth = InitAuth
    /\ form = InitForm
    /\ sse = InitSse
    /\ sidebar = InitSidebar

replayVars == <<twin, tape, twinPos>>
extVars == <<notes, clock, srv, auth, form, sse, sidebar>>
sessionVars == <<stream, nEvents, sessions, lastEvent, hist>>

\* The form is rendered only while currentStep is idle.  Sessions follow one
\* another: the response stream of the previous submit has ended.
Submit ==
    /\ page.currentStep = "idle"
    /\ stream \in {"none", "done", "failed"}
    /\ sessions < MaxSessions
    /\ page' = Effects(handleSubmit(page))
    /\ stream' = "fetching"
    /\ sessions' = sessions + 1
    /\ lastEvent' = NoEvent
    /\ hist' = InitHist
    /\ notes' = dispatchEvent(notes, "readingPending", sessions + 1)
    /\ UNCHANGED <<nEvents, replayVars, otherVars>>

\* fetch resolved with response.ok and a readable body
FetchOk ==
    /\ stream = "fetching"
    /\ stream' = "open"
    /\ UNCHANGED <<page, nEvents, sessions, lastEvent, hist, replayVars, extVars>>

\* fetch rejected or !response.ok: createReadingStream throws, handleSubmit catches
FetchRejected ==
    /\ stream = "fetching"
    /\ page' = Effects(handleSubmitCatch(page))
    /\ stream' = "failed"
    /\ notes' = dispatchEvent(notes, "readingFailed", sessions)
    /\ UNCHANGED <<nEvents, sessions, lastEvent, hist, replayVars, otherVars>>

\* one event: / data: pair read from the response body and dispatched
DeliverFrom(E, max) ==
    /\ stream = "open"
    /\ nEvents < max
    /\ \E ev \in E :
        /\ page' = Effects(Dispatch(page, ev))
        /\ lastEvent' = ev
        /\ hist' = Record(hist, page, ev)
        /\ notes' = notifyCallback(notes, ev, sessions)
    /\ nEvents' = nEvents + 1
    /\ UNCHANGED <<stream, sessions, replayVars, otherVars>>

Deliver == DeliverFrom(Events, MaxEvents)

\* reader.read() returned done: the loop ends, createReadingStream resolves
StreamDone ==
    /\ stream = "open"
    /\ stream' = "done"
    /\ UNCHANGED <<page, nEvents, sessions, lastEvent, hist, replayVars, extVars>>

\* reader.read() rejected: createReadingStream throws, handleSubmit catches
ReadThrows ==
    /\ stream = "open"
    /\ page' = Effects(handleSubmitCatch(page))
    /\ stream' = "failed"
    /\ notes' = dispatchEvent(notes, "readingFailed", sessions)
    /\ UNCHANGED <<nEvents, sessions, lastEvent, hist, replayVars, otherVars>>

TypingTick ==
    /\ page.typingInterval
    /\ page' = Effects(typingTick(page))
    /\ hist' = [hist EXCEPT !.typingStopped = @ \/ page.interpretationBuffer = NoText]
    /\ UNCHANGED <<stream, nEvents, sessions, lastEvent, replayVars, extVars>>

RevealTimer ==
    /\ RevealArmed(page)
    /\ page' = Effects(revealTimer(page))
    /\ UNCHANGED <<sessionVars, replayVars, extVars>>

InterpretationBoxTimer ==
    /\ InterpretationBoxArmed(page)
    /\ page' = Effects(interpretationBoxTimer(page))
    /\ UNCHANGED <<sessionVars, replayVars, extVars>>

ImageryBoxDelayFire ==
    /\ page.imageryBoxDelay
    /\ page' = Effects(imageryBoxDelayFire(page))
    /\ UNCHANGED <<sessionVars, replayVars, extVars>>

ImageryBoxSoonFire ==
    /\ page.imageryBoxSoon
    /\ page' = Effects(imageryBoxSoonFire(page))
    /\ UNCHANGED <<sessionVars, replayVars, extVars>>

InterpretationBoxSoonFire ==
    /\ page.interpretationBoxSoon
    /\ page' = Effects(interpretationBoxSoonFire(page))
    /\ UNCHANGED <<sessionVars, replayVars, extVars>>

\* a setTimeout(..., 0) callback of onComplete runs: readingCreated is dispatched
ReadingCreatedFire ==
    /\ \E i \in 1..MaxSessions :
        /\ notes.createdSoon[i] > 0
        /\ notes' = [notes EXCEPT !.createdSoon[i] = @ - 1,
                                  !.readingCreated[i] = @ + 1]
    /\ UNCHANGED <<page, sessionVars, replayVars, otherVars>>

Next ==
    \/ Submit
    \/ FetchOk
    \/ FetchRejected
    \/ Deliver
    \/ StreamDone
    \/ ReadThrows
    \/ TypingTick
    \/ RevealTimer
    \/ InterpretationBoxTimer
    \/ ImageryBoxDelayFire
    \/ ImageryBoxSoonFire
    \/ InterpretationBoxSoonFire
    \/ ReadingCreatedFire

Spec == Init /\ [][Next]_vars

\* Streams of the interpretation stage: they carry interpretation_started,
\* interpretation fragments, complete and error.
TypingEvents ==
    { ev \in Events :
        \/ ev.kind \in {"interpretation", "complete", "error"}
        \/ ev.kind = "progress" /\ ev.step = "interpretation_started" }

TypingDeliver == DeliverFrom(TypingEvents, MaxTypingEvents)

TypingNext ==
    \/ Submit
    \/ FetchOk
    \/ FetchRejected
    \/ TypingDeliver
    \/ StreamDone
    \/ ReadThrows
    \/ TypingTick
    \/ InterpretationBoxSoonFire
    \/ ReadingCreatedFire

\* a pending setInterval / setTimeout callback is eventually run by the event loop
FairSpec ==
    /\ Init
    /\ [][TypingNext]_vars
    /\ WF_vars(TypingTick)
    /\ WF_vars(InterpretationBoxSoonFire)
    /\ WF_vars(ReadingCreatedFire)

\* the fetch call settles
FetchSettles == FetchOk \/ FetchRejected

\* the open response body yields its next event, ends, or fails
StreamAdvances == TypingDeliver \/ StreamDone \/ ReadThrows

\* the network does not leave a request or an open body waiting forever, and
\* a pending setTimeout callback is eventually run
NotifySpec ==
    /\ Init
    /\ [][TypingNext]_vars
    /\ WF_vars(FetchSettles)
    /\ WF_vars(StreamAdvances)
    /\ WF_vars(ReadingCreatedFire)

TypeOK ==
    /\ page.currentStep \in STRING
    /\ stream \in {"none", "fetching", "open", "done", "failed"}
    /\ nEvents \in 0..MaxEvents
    /\ sessions \in 0..MaxSessions

----------------------------------------------------------------------------
(* Replay: two fresh pages are fed the same event sequence; each runs its  *)
(* own timers.                                                             *)

\* both pages submit the same question; both response streams open
ReplayStart ==
    /\ stream = "none"
    /\ page' = Effects(handleSubmit(page))
    /\ twin' = Effects(handleSubmit(twin))
    /\ stream' = "open"
    /\ UNCHANGED <<nEvents, sessions, lastEvent, hist, tape, twinPos, extVars>>

\* the next event of the sequence is chosen and dispatched on the first page
ReplayFeed ==
    /\ stream = "open"
    /\ Len(tape) < MaxReplayEvents
    /\ \E ev \in Events :
        /\ page' = Effects(Dispatch(page, ev))
        /\ tape' = Append(tape, ev)
    /\ UNCHANGED <<stream, nEvents, sessions, lastEvent, hist, twin, twinPos, extVars>>

\* the sequence ends
ReplayEnd ==
    /\ stream = "open"
    /\ stream' = "done"
    /\ UNCHANGED <<page, nEvents, sessions, lastEvent, hist, replayVars, extVars>>

\* the second page is dispatched its next event of the same sequence
TwinFeed ==
    /\ twinPos < Len(tape)
    /\ twin' = Effects(Dispatch(twin, tape[twinPos + 1]))
    /\ twinPos' = twinPos + 1
    /\ UNCHANGED <<page, sessionVars, tape, extVars>>

TwinTypingTick ==
    /\ twin.typingInterval
    /\ twin' = Effects(typingTick(twin))
    /\ UNCHANGED <<page, sessionVars, tape, twinPos, extVars>>

TwinRevealTimer ==
    /\ RevealArmed(twin)
    /\ twin' = Effects(revealTimer(twin))
    /\ UNCHANGED <<page, sessionVars, tape, twinPos, extVars>>

TwinInterpretationBoxTimer ==
    /\ InterpretationBoxArmed(twin)
    /\ twin' = Effects(interpretationBoxTimer(twin))
    /\ UNCHANGED <<page, sessionVars, tape, twinPos, extVars>>

TwinImageryBoxDelayFire ==
    /\ twin.imageryBoxDelay
    /\ twin' = Effects(imageryBoxDelayFire(twin))
    /\ UNCHANGED <<page, sessionVars, tape, twinPos, extVars>>

TwinImageryBoxSoonFire ==
    /\ twin.imageryBoxSoon
    /\ twin' = Effects(imageryBoxSoonFire(twin))
    /\ UNCHANGED <<page, sessionVars, tape, twinPos, extVars>>

TwinInterpretationBoxSoonFire ==
    /\ twin.interpretationBoxSoon
    /\ twin' = Effects(interpretationBoxSoonFire(twin))
    /\ UNCHANGED <<page, sessionVars, tape, twinPos, extVars>>

\* TypingTick of the first page without the session history
ReplayTypingTick ==
    /\ page.typingInterval
    /\ page' = Effects(typingTick(page))
    /\ UNCHANGED <<sessionVars, replayVars, extVars>>

ReplayNext ==
    \/ ReplayStart
    \/ ReplayFeed
    \/ ReplayEnd
    \/ TwinFeed
    \/ ReplayTypingTick
    \/ RevealTimer
    \/ InterpretationBoxTimer
    \/ ImageryBoxDelayFire
    \/ ImageryBoxSoonFire
    \/ InterpretationBoxSoonFire
    \/ TwinTypingTick
    \/ TwinRevealTimer
    \/ TwinInterpretationBoxTimer
    \/ TwinImageryBoxDelayFire
    \/ TwinImageryBoxSoonFire
    \/ TwinInterpretationBoxSoonFire

ReplaySpec == Init /\ [][ReplayNext]_vars

\* the ClientReadingState of a page
ClientReadingState(st) ==
    [ currentStep           |-> st.currentStep,
      cards                 |-> st.cards,
      displayedCards        |-> st.displayedCards,
      imageryDescription    |-> st.imageryDescription,
      interpretationDisplay |-> st.interpretationDisplay,
      readingId             |-> st.readingId ]

\* both pages have consumed the whole sequence and every timer has fired
ReplayFinished ==
    /\ stream = "done"
    /\ twinPos = Len(tape)
    /\ Quiescent(page)
    /\ Quiescent(twin)

----------------------------------------------------------------------------
(* The page with the delays of its timers.  Time advances in ticks of      *)
(* 1/TicksPerSecond seconds; a setTimeout callback runs when its delay has *)
(* elapsed, a setTimeout(..., 0) callback before time advances.            *)

ThreeCardTotalMs == 5000
CelticCrossTotalMs == 10000
BoxDelayMs == 1000

Ticks(ms) == (ms * TicksPerSecond) \div 1000

CardNames == <<"A", "B", "C", "D", "E", "F", "G", "H", "I", "J">>

CelticCards == [i \in 1..CelticCrossCount |-> Card(CardNames[i], i - 1)]

TimedEvents ==
    { Ev("progress", "cards_selected", NoText, cl, Null) :
        cl \in CardLists \cup {CelticCards} }
    \cup { Ev("progress", st, NoText, <<>>, Null) :
        st \in {"rag_retrieved", "imagery_generated", "interpretation_started"} }
    \cup { Ev("imagery_chunk", "", <<1>>, <<>>, Null),
           Ev("interpretation", "", <<1, 2, 3>>, <<>>, Null),
           Ev("error", "", <<8>>, <<>>, Null) }

\* intervalPerCard = totalDisplayTime / sortedCards.length
intervalPerCard(st) ==
    ((IF st.spreadType = "three_card" THEN ThreeCardTotalMs ELSE CelticCrossTotalMs)
        * TicksPerSecond) \div (1000 * Len(st.cards))

\* After a render the effects whose dependencies changed are cleaned up
\* (clearTimeout) and run again (setTimeout); the others keep their timer.
\* setCards always stores a new array, so it always changes the dependency.
rearm(c, old, new, cardsReplaced) ==
    [ c EXCEPT
        !.reveal =
            IF \/ cardsReplaced
               \/ Len(new.displayedCards) # Len(old.displayedCards)
               \/ new.spreadType # old.spreadType
               \/ new.allCardsDisplayed # old.allCardsDisplayed
            THEN IF RevealArmed(new) THEN {intervalPerCard(new)} ELSE {}
            ELSE @,
        !.interpBox =
            IF \/ new.currentStep # old.currentStep
               \/ new.showInterpretationBox # old.showInterpretationBox
            THEN IF InterpretationBoxArmed(new) THEN {Ticks(BoxDelayMs)} ELSE {}
            ELSE @,
        !.sinceStep = IF new.currentStep # old.currentStep THEN 0 ELSE @ ]

\* a callback is due, or a zero-delay callback is pending
Due ==
    \/ 0 \in clock.reveal \cup clock.interpBox \cup clock.imageryBox
    \/ page.imageryBoxSoon
    \/ page.interpretationBoxSoon

timedVars == <<replayVars, srv, auth, form, sse, sidebar>>

\* the form is submitted; zero-delay callbacks have run before a user can act
TimedSubmit ==
    /\ page.currentStep = "idle"
    /\ stream \in {"none", "done", "failed"}
    /\ sessions < MaxSessions
    /\ ~page.imageryBoxSoon /\ ~page.interpretationBoxSoon
    /\ page' = Effects(handleSubmit(page))
    /\ clock' = [rearm(clock, page, page', TRUE) EXCEPT !.sinceCards = 0, !.sinceLast = 0]
    /\ stream' = "fetching"
    /\ sessions' = sessions + 1
    /\ lastEvent' = NoEvent
    /\ hist' = InitHist
    /\ notes' = dispatchEvent(notes, "readingPending", sessions + 1)
    /\ UNCHANGED <<nEvents, timedVars>>

TimedDeliver ==
    /\ stream = "open"
    /\ nEvents < MaxTimedEvents
    /\ \E ev \in TimedEvents :
        LET isCards == ev.kind = "progress" /\ ev.step = "cards_selected"
        IN  /\ page' = Effects(Dispatch(page, ev))
            /\ clock' = [rearm(clock, page, page', isCards) EXCEPT
                           !.sinceCards = IF isCards THEN 0 ELSE @]
            /\ lastEvent' = ev
            /\ hist' = Record(hist, page, ev)
            /\ notes' = notifyCallback(notes, ev, sessions)
    /\ nEvents' = nEvents + 1
    /\ UNCHANGED <<stream, sessions, timedVars>>

TimedReadThrows ==
    /\ stream = "open"
    /\ page' = Effects(handleSubmitCatch(page))
    /\ clock' = rearm(clock, page, page', FALSE)
    /\ stream' = "failed"
    /\ notes' = dispatchEvent(notes, "readingFailed", sessions)
    /\ UNCHANGED <<nEvents, sessions, lastEvent, hist, timedVars>>

\* the timer of the reveal effect is due
TimedReveal ==
    /\ 0 \in clock.reveal
    /\ page' = Effects(revealTimer(page))
    /\ LET last == page'.allCardsDisplayed /\ ~page.allCardsDisplayed
       IN  clock' = [rearm([clock EXCEPT !.reveal = {}], page, page', FALSE) EXCEPT
                       !.imageryBox = IF last THEN @ \cup {Ticks(BoxDelayMs)} ELSE @,
                       !.sinceLast = IF last THEN 0 ELSE @]
    /\ UNCHANGED <<sessionVars, notes, timedVars>>

\* the 1 s timer of the interpretation-box effect is due
TimedInterpretationBox ==
    /\ 0 \in clock.interpBox
    /\ page' = Effects(interpretationBoxTimer(page))
    /\ clock' = rearm([clock EXCEPT !.interpBox = {}], page, page', FALSE)
    /\ UNCHANGED <<sessionVars, notes, timedVars>>

\* a 1 s timer started at the last reveal is due
TimedImageryBox ==
    /\ 0 \in clock.imageryBox
    /\ clock' = [clock EXCEPT !.imageryBox = @ \ {0}]
    /\ page' = [Effects(imageryBoxDelayFire(page)) EXCEPT
                  !.imageryBoxDelay = clock'.imageryBox # {}]
    /\ UNCHANGED <<sessionVars, notes, timedVars>>

TimedInterpretationBoxSoon ==
    /\ page.interpretationBoxSoon
    /\ page' = Effects(interpretationBoxSoonFire(page))
    /\ clock' = rearm(clock, page, page', FALSE)
    /\ UNCHANGED <<sessionVars, notes, timedVars>>

\* one tick passes
Tick ==
    /\ ~Due
    /\ clock' = [ clock EXCEPT
                    !.reveal = { t - 1 : t \in @ },
                    !.interpBox = { t - 1 : t \in @ },
                    !.imageryBox = { t - 1 : t \in @ },
                    !.sinceCards = Min(@ + 1, Ticks(CelticCrossTotalMs)),
                    !.sinceLast = Min(@ + 1, Ticks(BoxDelayMs)),
                    !.sinceStep = Min(@ + 1, Ticks(BoxDelayMs)) ]
    /\ clock' # clock
    /\ UNCHANGED <<page, sessionVars, notes, timedVars>>

TimedNext ==
    \/ TimedSubmit
    \/ FetchOk
    \/ FetchRejected
    \/ TimedDeliver
    \/ StreamDone
    \/ TimedReadThrows
    \/ TimedReveal
    \/ TimedInterpretationBox
    \/ TimedImageryBox
    \/ ImageryBoxSoonFire
    \/ TimedInterpretationBoxSoon
    \/ TypingTick
    \/ Tick

TimedSpec == Init /\ [][TimedNext]_vars

----------------------------------------------------------------------------
(* Reading Orchestrator (server side), one session.  Its source is not     *)
(* part of the frontend sources; it is modelled from the specification,    *)
(* section 4.1 (stage state machine), 5 (concurrency) and 7 (errors).      *)

SpreadSizes == { ThreeCardCount, CelticCrossCount }

\* the orchestrator works on a stage
Running(s) ==
    s.pc \in { "question_analysis", "card_selection", "pattern_analysis",
               "knowledge_retrieval", "imagery_generation", "join",
               "interpretation_generation" }

\* emit one event on the response stream
Emit(s, tags) == [s EXCEPT !.out = @ \o tags]

\* per-card completions needed before rag_first_card_ready: 1/3 of the cards
\* of the three-card spread, 1/10 of the cards of the ten-card spread
FirstCardThreshold(n) == IF n = ThreeCardCount THEN n \div 3 ELSE n \div 10

\* one per-card retrieval call completes: a progress event reports the
\* completion count, and the first-card-ready event once it crosses the threshold
cardRetrieved(s) ==
    LET done == s.cardsDone + 1
        ready == done >= FirstCardThreshold(s.nCards) /\ ~s.firstReady
    IN  [ Emit(s, IF ready THEN <<"rag_card_progress", "rag_first_card_ready">>
                  ELSE <<"rag_card_progress">>)
            EXCEPT !.cardsDone = done, !.firstReady = @ \/ ready ]

\* per-card retrieval has finished as a whole
cardRetrievalDone(s) == s.cardsDone = s.nCards

\* imagery streaming that goes on after the end of the stage was announced
imageryStreamingLate(s) == s.pc \in {"imagery_generation", "join"}

\* imagery fragments are emitted while the imagery stage runs
imageryStreaming(s) == s.pc = "imagery_generation"

\* only the method task is awaited
joinedMethodOnly(s) == s.bgMethod = "done"

\* the join point: both background retrieval tasks have completed
joined(s) == s.bgMethod = "done" /\ s.bgRelation = "done"

\* a background task may fail; the failure surfaces at the join
joinFailed(s) == s.bgMethod = "failed" \/ s.bgRelation = "failed"

\* the complete transition: persist the session, emit complete
completeSession(s) ==
    [ Emit(s, <<"complete">>) EXCEPT !.pc = "complete", !.store = @ \cup {s.id} ]

\* a failure that emits error but lets the pipeline go on
failSessionKeepsRunning(s) == Emit(s, <<"error">>)

\* the failed transition: one error event, the session is discarded
failSession(s) == [ Emit(s, <<"error">>) EXCEPT !.pc = "failed" ]

\* a disconnect handler that saves what has been produced so far
abandonSessionSavesPartial(s) ==
    [ s EXCEPT !.pc = "abandoned", !.connected = FALSE, !.store = @ \cup {s.id} ]

\* the client disconnected: remaining stages are abandoned, nothing is persisted
abandonSession(s) == [ s EXCEPT !.pc = "abandoned", !.connected = FALSE ]

orchVars == <<page, stream, nEvents, sessions, lastEvent, hist, replayVars,
              notes, clock, auth, form, sse, sidebar>>

\* a validated request arrives; question_analysis starts
OrchStart ==
    /\ srv.pc = "idle"
    /\ \E n \in SpreadSizes :
        srv' = [srv EXCEPT !.pc = "question_analysis", !.nCards = n]
    /\ UNCHANGED orchVars

OrchQuestionAnalysed ==
    /\ srv.pc = "question_analysis"
    /\ srv' = [Emit(srv, <<"question_analysis">>) EXCEPT !.pc = "card_selection"]
    /\ UNCHANGED orchVars

OrchCardsSelected ==
    /\ srv.pc = "card_selection"
    /\ srv' = [Emit(srv, <<"cards_selected">>) EXCEPT !.pc = "pattern_analysis"]
    /\ UNCHANGED orchVars

\* pattern analysis done; knowledge_retrieval issues the per-card calls and
\* launches the two background tasks
OrchPatternAnalysed ==
    /\ srv.pc = "pattern_analysis"
    /\ srv' = [Emit(srv, <<"pattern_analyzed">>) EXCEPT
                 !.pc = "knowledge_retrieval",
                 !.bgMethod = "running",
                 !.bgRelation = "running"]
    /\ UNCHANGED orchVars

OrchCardRetrieved ==
    /\ srv.pc = "knowledge_retrieval"
    /\ srv.cardsDone < srv.nCards
    /\ srv' = cardRetrieved(srv)
    /\ UNCHANGED orchVars

OrchRagRetrieved ==
    /\ srv.pc = "knowledge_retrieval"
    /\ cardRetrievalDone(srv)
    /\ srv' = [Emit(srv, <<"rag_retrieved">>) EXCEPT !.pc = "imagery_generation"]
    /\ UNCHANGED orchVars

OrchImageryChunk ==
    /\ imageryStreaming(srv)
    /\ srv.nImagery < MaxFragments
    /\ srv' = [Emit(srv, <<"imagery_chunk">>) EXCEPT !.nImagery = @ + 1]
    /\ UNCHANGED orchVars

OrchImageryGenerated ==
    /\ srv.pc = "imagery_generation"
    /\ srv' = [Emit(srv, <<"imagery_generated">>) EXCEPT
                 !.pc = "join", !.overlapped = ~joined(srv)]
    /\ UNCHANGED orchVars

\* a background task completes or fails, at any time after its launch
OrchBackgroundEnds ==
    /\ Running(srv)
    /\ \E r \in {"done", "failed"} :
        \/ srv.bgMethod = "running" /\ srv' = [srv EXCEPT !.bgMethod = r]
        \/ srv.bgRelation = "running" /\ srv' = [srv EXCEPT !.bgRelation = r]
    /\ UNCHANGED orchVars

OrchJoin ==
    /\ srv.pc = "join"
    /\ joined(srv)
    /\ srv' = [Emit(srv, <<"interpretation_started">>) EXCEPT
                 !.pc = "interpretation_generation"]
    /\ UNCHANGED orchVars

OrchInterpretationFragment ==
    /\ srv.pc = "interpretation_generation"
    /\ srv.nInterp < MaxFragments
    /\ srv' = [Emit(srv, <<"interpretation">>) EXCEPT !.nInterp = @ + 1]
    /\ UNCHANGED orchVars

OrchComplete ==
    /\ srv.pc = "interpretation_generation"
    /\ srv' = completeSession(srv)
    /\ UNCHANGED orchVars

\* a service call of the current stage throws or times out, or the stage hits
\* a fatal programming error; at the join, a failed background task
OrchFail ==
    /\ Running(srv)
    /\ srv.pc = "join" => joinFailed(srv)
    /\ srv' = failSession(srv)
    /\ UNCHANGED orchVars

OrchDisconnect ==
    /\ Running(srv)
    /\ srv' = abandonSession(srv)
    /\ UNCHANGED orchVars

OrchNext ==
    \/ OrchStart
    \/ OrchQuestionAnalysed
    \/ OrchCardsSelected
    \/ OrchPatternAnalysed
    \/ OrchCardRetrieved
    \/ OrchRagRetrieved
    \/ OrchImageryChunk
    \/ OrchImageryGenerated
    \/ OrchBackgroundEnds
    \/ OrchJoin
    \/ OrchInterpretationFragment
    \/ OrchComplete
    \/ OrchFail
    \/ OrchDisconnect

OrchSpec == Init /\ [][OrchNext]_vars

\* position of an event in the stage order of section 4.1
StageRank(tag) ==
    CASE tag = "question_analysis" -> 1
      [] tag = "cards_selected" -> 2
      [] tag = "pattern_analyzed" -> 3
      [] tag \in {"rag_card_progress", "rag_first_card_ready", "rag_retrieved"} -> 4
      [] tag \in {"imagery_chunk", "imagery_generated"} -> 5
      [] tag \in {"interpretation_started", "interpretation"} -> 6
      [] tag = "complete" -> 7
      [] OTHER -> 8

Emitted(tag) == \E i \in 1..Len(srv.out) : srv.out[i] = tag

----------------------------------------------------------------------------
(* apiClient interceptors, token storage, AuthProvider, ProtectedRoute and *)
(* the email-confirmation callback page.                                   *)
(* Time is counted in units of DayUnit days.                               *)

InactivityLimit == 30
DayUnit == 10

Routes == {"protected", "login", "callback"}

authVars == <<page, stream, nEvents, sessions, lastEvent, hist, replayVars,
              notes, clock, srv, form, sse, sidebar>>

\* last_activity is stored and daysSinceLastActivity > 30
inactiveTooLong(a) == a.store.last_activity /\ a.age > InactivityLimit

\* the five localStorage.removeItem calls
clearTokens(a) == [a EXCEPT !.store = ClearedStore, !.age = 0]

\* localStorage.setItem('last_activity', Date.now().toString())
touch(a) == [a EXCEPT !.store.last_activity = TRUE, !.age = 0]

\* the promise of a request is settled; nothing else of it is read afterwards
settled(q, st) == [IdleRequest EXCEPT !.st = st]

\* the server issues a token different from the one issued before; tokens are
\* numbered 1..MaxTokens and the numbers are used again after MaxTokens
nextToken(a) == (a.issued % MaxTokens) + 1

\* a new request: the request interceptor copies access_token into the header
newRequest(a, u, o) ==
    [IdleRequest EXCEPT !.st = "inflight", !.url = u, !.origin = o,
                        !.token = a.store.access_token]

\* a checkAuth call is between its first await and its finally block
checkRunning(a) ==
    \E r \in 1..MaxRequests :
        /\ a.req[r].origin = "checkAuth"
        /\ a.req[r].st \in {"inflight", "refreshing", "queued"}

\* a request's promise rejects and its caller goes on:
\*  - checkAuth, getMe(): the catch block removes the tokens, setUser(null),
\*    then finally setLoading(false)
\*  - checkAuth, getProfile(): setProfile(null), then finally setLoading(false)
\*  - authAPI.signout: the finally block removes the tokens; AuthProvider.signout
\*    does not reach setUser(null)
rejectRequest(a, r) ==
    LET q == a.req[r]
        b == [a EXCEPT !.req[r] = settled(q, "rejected")]
    IN  IF q.origin = "checkAuth" /\ q.url = "me"
        THEN [clearTokens(b) EXCEPT !.user = FALSE, !.loading = FALSE]
        ELSE IF q.origin = "checkAuth" THEN [b EXCEPT !.loading = FALSE]
        ELSE IF q.url = "signout" THEN [clearTokens(b) EXCEPT !.signedOut = TRUE]
        ELSE b

RECURSIVE rejectAll(_, _)
rejectAll(a, rs) ==
    IF rs = {} THEN a
    ELSE LET r == CHOOSE x \in rs : TRUE
         IN  rejectAll(rejectRequest(a, r), rs \ {r})

\* processQueue(error, null)
processQueueError(a) == [rejectAll(a, a.failedQueue) EXCEPT !.failedQueue = {}]

\* processQueue(null, token): every queued request is sent again with the token
processQueueToken(a, token) ==
    [ a EXCEPT !.failedQueue = {},
               !.req = [r \in 1..MaxRequests |->
                          IF r \in a.failedQueue
                          THEN [a.req[r] EXCEPT !.st = "inflight", !.token = token]
                          ELSE a.req[r]] ]

\* the condition of the response error interceptor
refreshable(q) == ~q.retry /\ q.url # "signin"

\* an interceptor that starts a refresh although one is running
onUnauthorizedNoQueue(a, r) ==
    IF ~refreshable(a.req[r]) THEN rejectRequest(a, r)
    ELSE LET b == [a EXCEPT !.req[r].retry = TRUE]
         IN  IF b.store.refresh_token = 0 \/ inactiveTooLong(b)
             THEN rejectRequest(processQueueError(clearTokens(b)), r)
             ELSE [b EXCEPT !.isRefreshing = TRUE, !.req[r].st = "refreshing"]

\* response error interceptor, status 401
onUnauthorized(a, r) ==
    IF ~refreshable(a.req[r]) THEN rejectRequest(a, r)
    ELSE IF a.isRefreshing
    THEN [a EXCEPT !.req[r].st = "queued", !.failedQueue = @ \cup {r}]
    ELSE LET b == [a EXCEPT !.req[r].retry = TRUE]
         IN  IF b.store.refresh_token = 0 \/ inactiveTooLong(b)
             THEN rejectRequest(processQueueError(clearTokens(b)), r)
             ELSE [b EXCEPT !.isRefreshing = TRUE, !.req[r].st = "refreshing"]

\* the refresh response carries both tokens
onRefreshed(a, r) ==
    LET tok == nextToken(a)
        b == [touch(a) EXCEPT !.store.access_token = tok,
                              !.store.refresh_token = tok,
                              !.store.user_id = TRUE,
                              !.store.user_email = TRUE,
                              !.issued = tok]
    IN  [processQueueToken(b, tok) EXCEPT
            !.isRefreshing = FALSE,
            !.req[r].st = "inflight",
            !.req[r].token = tok]

\* a catch block that rejects the request that started the refresh but
\* leaves the queue as it is
onRefreshFailedKeepsQueue(a, r) ==
    [rejectRequest(clearTokens(a), r) EXCEPT !.isRefreshing = FALSE]

\* the catch block around the refresh call
onRefreshFailed(a, r) ==
    [rejectRequest(processQueueError(clearTokens(a)), r) EXCEPT !.isRefreshing = FALSE]

\* response success interceptor, then the caller goes on:
\*  - authAPI.signin stores the tokens, AuthProvider.signin sets the user
\*  - authAPI.signout removes the tokens, AuthProvider.signout clears the user
\*  - checkAuth, getMe(): setUser(userData), then getProfile() is sent
\*  - checkAuth, getProfile(): setProfile, then finally setLoading(false)
onResponse(a, r) ==
    LET q == a.req[r]
        b == [touch(a) EXCEPT !.req[r] = settled(q, "ok")]
        tok == nextToken(a)
    IN  IF q.url = "signin"
        THEN [b EXCEPT !.store.access_token = tok, !.store.refresh_token = tok,
                       !.store.user_id = TRUE, !.store.user_email = TRUE,
                       !.issued = tok, !.user = TRUE, !.signedOut = FALSE]
        ELSE IF q.url = "signout"
        THEN [clearTokens(b) EXCEPT !.user = FALSE, !.signedOut = TRUE]
        ELSE IF q.origin = "checkAuth" /\ q.url = "me"
        THEN [b EXCEPT !.user = TRUE,
                       !.req[r] = newRequest(b, "profile", "checkAuth")]
        ELSE IF q.origin = "checkAuth" THEN [b EXCEPT !.loading = FALSE]
        ELSE b

\* checkAuth up to its first await
checkAuth(a, r) ==
    IF inactiveTooLong(a)
    THEN [clearTokens(a) EXCEPT !.user = FALSE, !.loading = FALSE]
    ELSE IF a.store.access_token # 0 \/ a.store.refresh_token # 0
    THEN [a EXCEPT !.req[r] = newRequest(a, "me", "checkAuth")]
    ELSE [a EXCEPT !.user = FALSE, !.loading = FALSE]

Step(a, op) == [a EXCEPT !.last = op]

FreeSlot(r) == auth.req[r].st \in {"idle", "ok", "rejected"}

\* requests are numbered in the order of their slots: a new one takes the
\* first free slot
NextSlot(r) == FreeSlot(r) /\ \A q \in 1..(r - 1) : ~FreeSlot(q)

\* apiClient(config) for a request of the application or the sign-in form
AuthSend ==
    /\ \E r \in 1..MaxRequests : \E u \in {"me", "signin"} :
        /\ NextSlot(r)
        /\ auth' = Step([auth EXCEPT !.req[r] = newRequest(auth, u, "api")], "send")
    /\ UNCHANGED authVars

\* AuthProvider.signout, offered to a signed-in user: authAPI.signout posts
\* /api/auth/signout
SignOut ==
    /\ auth.user
    /\ \E r \in 1..MaxRequests :
        /\ NextSlot(r)
        /\ auth' = Step([auth EXCEPT !.req[r] = newRequest(auth, "signout", "api")],
                        "signout")
    /\ UNCHANGED authVars

\* the effect of AuthProvider runs after mount: checkAuth(), then the
\* authStateChanged listener is registered
CheckAuth ==
    /\ ~auth.checked
    /\ \E r \in 1..MaxRequests :
        /\ NextSlot(r)
        /\ auth' = Step([checkAuth(auth, r) EXCEPT !.checked = TRUE], "checkAuth")
    /\ UNCHANGED authVars

\* AuthCallbackPage.handleCallback with tokens in the link: they are stored and
\* authStateChanged is dispatched; a registered listener calls checkAuth()
AuthCallback ==
    /\ auth.route = "callback"
    /\ ~auth.confirmed
    /\ \E r \in 1..MaxRequests :
        /\ NextSlot(r)
        /\ LET tok == nextToken(auth)
               b == [touch(auth) EXCEPT !.store.access_token = tok,
                                        !.store.refresh_token = tok,
                                        !.issued = tok,
                                        !.confirmed = TRUE,
                                        !.signedOut = FALSE]
           IN  auth' = Step(IF auth.checked THEN checkAuth(b, r) ELSE b, "callback")
    /\ UNCHANGED authVars

\* router.push('/') of the callback page, 2 s after the confirmation
CallbackNavigate ==
    /\ auth.route = "callback"
    /\ auth.confirmed
    /\ auth' = Step([auth EXCEPT !.route = "protected"], "navigate")
    /\ UNCHANGED authVars

\* the effect of ProtectedRoute: router.push('/login')
RouteRedirect ==
    /\ auth.route = "protected"
    /\ ~auth.loading /\ ~auth.user
    /\ auth' = Step([auth EXCEPT !.route = "login"], "redirect")
    /\ UNCHANGED authVars

\* the document is loaded at some route: what is in memory starts afresh,
\* localStorage is kept
Load ==
    /\ \E rt \in Routes :
        auth' = Step([InitAuth EXCEPT !.store = auth.store, !.age = auth.age,
                                      !.issued = auth.issued,
                                      !.signedOut = auth.signedOut,
                                      !.route = rt],
                     "load")
    /\ auth' # auth
    /\ UNCHANGED authVars

\* the server answers 2xx
AuthResponse ==
    /\ \E r \in 1..MaxRequests :
        /\ auth.req[r].st = "inflight"
        /\ auth' = Step(onResponse(auth, r), "response")
    /\ UNCHANGED authVars

\* the server answers 401
AuthUnauthorized ==
    /\ \E r \in 1..MaxRequests :
        /\ auth.req[r].st = "inflight"
        /\ auth' = Step(onUnauthorized(auth, r), "unauthorized")
    /\ UNCHANGED authVars

\* any other failure of the request: the error interceptor rejects it
AuthRequestFails ==
    /\ \E r \in 1..MaxRequests :
        /\ auth.req[r].st = "inflight"
        /\ auth' = Step(rejectRequest(auth, r), "failure")
    /\ UNCHANGED authVars

AuthRefreshed ==
    /\ \E r \in 1..MaxRequests :
        /\ auth.req[r].st = "refreshing"
        /\ auth' = Step(onRefreshed(auth, r), "refreshed")
    /\ UNCHANGED authVars

\* the refresh call fails: HTTP error, network error, or a response without tokens
AuthRefreshFailed ==
    /\ \E r \in 1..MaxRequests :
        /\ auth.req[r].st = "refreshing"
        /\ auth' = Step(onRefreshFailed(auth, r), "refreshFailed")
    /\ UNCHANGED authVars

\* time passes while no request is under way
DaysPass ==
    /\ \A r \in 1..MaxRequests : FreeSlot(r)
    /\ auth.store.last_activity
    /\ auth.age < MaxAge
    /\ auth' = Step([auth EXCEPT !.age = Min(@ + DayUnit, MaxAge)], "daysPass")
    /\ UNCHANGED authVars

\* the application with its session: sign-out, page loads, the confirmation
\* link and the route guard
SessionNext ==
    \/ AuthSend
    \/ SignOut
    \/ CheckAuth
    \/ AuthCallback
    \/ CallbackNavigate
    \/ RouteRedirect
    \/ Load
    \/ AuthResponse
    \/ AuthUnauthorized
    \/ AuthRequestFails
    \/ AuthRefreshed
    \/ AuthRefreshFailed

SessionSpec == Init /\ [][SessionNext]_vars

\* the interceptors on one loaded page
AuthNext ==
    \/ AuthSend
    \/ CheckAuth
    \/ AuthResponse
    \/ AuthUnauthorized
    \/ AuthRequestFails
    \/ AuthRefreshed
    \/ AuthRefreshFailed
    \/ DaysPass

AuthSpec == Init /\ [][AuthNext]_vars

\* the refresh call is answered or fails
RefreshEnds == AuthRefreshed \/ AuthRefreshFailed

\* the HTTP call to /api/auth/refresh does not stay open forever
AuthFairSpec == Init /\ [][AuthNext]_vars /\ WF_vars(RefreshEnds)

\* request r is answered: 2xx, 401 or another failure
Answered(r) ==
    /\ auth.req[r].st = "inflight"
    /\ \/ auth' = Step(onResponse(auth, r), "response")
       \/ auth' = Step(onUnauthorized(auth, r), "unauthorized")
       \/ auth' = Step(rejectRequest(auth, r), "failure")
    /\ UNCHANGED authVars

\* every request that was sent is answered, and the refresh call ends
AuthLiveSpec ==
    /\ Init
    /\ [][AuthNext]_vars
    /\ WF_vars(RefreshEnds)
    /\ \A r \in 1..MaxRequests : WF_vars(Answered(r))

----------------------------------------------------------------------------
(* Properties *)

\* a step of Deliver: one more event has been dispatched
Delivered == nEvents' = nEvents + 1

\* C1: after the error callback has run, no later event of the same stream
\* changes the client state: the step stays idle, no result identifier is
\* stored, no card, imagery or interpretation data is added.
C1_ErrorIsTerminal ==
    [][ (hist.errorSeen /\ Delivered /\ lastEvent'.kind # "error") =>
            /\ page'.currentStep = "idle"
            /\ page'.readingId = page.readingId
            /\ page'.cards = page.cards
            /\ page'.displayedCards = page.displayedCards
            /\ page'.imageryDescription = page.imageryDescription
            /\ page'.interpretationDisplay = page.interpretationDisplay
            /\ page'.interpretationBuffer = page.interpretationBuffer ]_vars

\* C2: whenever the response stream has ended without a complete event, the
\* page eventually is in step idle.
C2_NoCompleteEndsIdle ==
    [](stream = "done" /\ ~hist.completeSeen => <>(page.currentStep = "idle"))

\* C3: a progress event with an informational step (started,
\* rag_card_progress, rag_first_card_ready) leaves the current step as it was.
C3_InformationalStepIgnored ==
    [][ (Delivered /\ lastEvent'.kind = "progress"
                   /\ lastEvent'.step \in InformationalSteps) =>
            page'.currentStep = page.currentStep ]_vars

\* C4: progress(imagery_generated) with a full-text fallback changes the
\* imagery buffer only when the buffer is empty; after at least one non-empty
\* imagery_chunk the buffer is left as it was, equal to the concatenation of
\* the chunk texts.
C4_FallbackOnlyIfEmpty ==
    [][ (Delivered /\ lastEvent'.kind = "progress"
                   /\ lastEvent'.step = "imagery_generated"
                   /\ lastEvent'.text # NoText) =>
            /\ page.imageryDescription # NoText =>
                   page'.imageryDescription = page.imageryDescription
            /\ (hist.recvImagery # NoText /\ page.imageryDescription = hist.recvImagery) =>
                   page'.imageryDescription = hist.recvImagery ]_vars

C7_ReplayIdempotent ==
    ReplayFinished => ClientReadingState(page) = ClientReadingState(twin)

\* both pages finished a sequence in which timers and events interleave:
\* cards revealed by the timer, or typed text cut off by an error
C7_Witness ==
    /\ ReplayFinished
    /\ Len(tape) = MaxReplayEvents
    /\ \/ Len(page.displayedCards) = ThreeCardCount
       \/ \E i \in 1..Len(tape) : \E j \in 1..Len(tape) :
            /\ i < j
            /\ tape[i].kind = "interpretation" /\ tape[i].text # NoText
            /\ tape[j].kind = "error"

\* C8: after an error event has been handled the card list and the
\* revealed-card list are empty, the imagery and interpretation buffers are
\* empty, and no timer reveals another card.
C8_ErrorDiscardsBuffers ==
    lastEvent.kind = "error" =>
        /\ page.cards = <<>>
        /\ page.displayedCards = <<>>
        /\ page.imageryDescription = NoText
        /\ page.interpretationDisplay = NoText
        /\ page.interpretationBuffer = NoText

\* C9: imagery and interpretation text displayed before an error event is
\* still displayed after the error has been handled.
C9_ErrorKeepsShownText ==
    [][ (Delivered /\ lastEvent'.kind = "error") =>
            /\ page'.imageryDescription = page.imageryDescription
            /\ page'.interpretationDisplay = page.interpretationDisplay ]_vars

\* C10: during a session (with one cards_selected event) the revealed-card
\* list is a prefix of the selected cards sorted by position_order, and every
\* change of it appends the next card in position order.
C10_RevealOrdered ==
    /\ [](hist.nCardsSelected <= 1 =>
            IsPrefix(page.displayedCards, sortedCards(page.cards)))
    /\ [][ (hist'.nCardsSelected <= 1 /\ sessions' = sessions
              /\ page'.displayedCards # page.displayedCards) =>
                /\ Len(page'.displayedCards) = Len(page.displayedCards) + 1
                /\ IsPrefix(page.displayedCards, page'.displayedCards)
                /\ IsPrefix(page'.displayedCards, sortedCards(page'.cards)) ]_vars

\* C14: an imagery_chunk event, whatever its payload (its text may be empty
\* or missing), leaves the current step as it was.
C14_ChunkKeepsStep ==
    [][ (Delivered /\ lastEvent'.kind = "imagery_chunk") =>
            page'.currentStep = page.currentStep ]_vars

\* C15: the emitted events follow the stage order: no event of a stage is
\* emitted after an event of a later stage, the end of stage event
\* (rag_retrieved, imagery_generated) closes its stage, and the background
\* retrieval tasks emit no events of their own.
C15_EventOrder ==
    /\ [](\A i \in 1..Len(srv.out) : \A j \in 1..Len(srv.out) :
            i < j =>
                /\ StageRank(srv.out[i]) <= StageRank(srv.out[j])
                /\ srv.out[i] = "rag_retrieved" => StageRank(srv.out[j]) > 4
                /\ srv.out[i] = "imagery_generated" => StageRank(srv.out[j]) > 5)
    /\ [][ (  (srv.bgMethod = "running" /\ srv'.bgMethod # "running")
            \/ (srv.bgRelation = "running" /\ srv'.bgRelation # "running")) =>
               srv'.out = srv.out ]_vars

\* a completed session of the ten-card spread whose background tasks ended
\* during the imagery stage
C15_Witness ==
    /\ srv.pc = "complete"
    /\ srv.nCards = CelticCrossCount
    /\ srv.nImagery = MaxFragments
    /\ srv.nInterp = MaxFragments

\* C16: a stage failure leads to exactly one error event, which is the last
\* event of the session; a session never emits both error and complete.
C16_OneErrorThenEnd ==
    /\ srv.pc = "failed" <=> Emitted("error")
    /\ \A i \in 1..Len(srv.out) : srv.out[i] = "error" => i = Len(srv.out)
    /\ ~(Emitted("error") /\ Emitted("complete"))

\* a failure during interpretation, after fragments were streamed
C16_Witness ==
    /\ srv.pc = "failed"
    /\ srv.nInterp > 0
    /\ srv.out[Len(srv.out)] = "error"

\* C17: a record is in the store only after the complete transition; after
\* an error event or a disconnect before complete there is none.
C17_NoPartialPersistence ==
    /\ srv.store # {} => (srv.pc = "complete" /\ Emitted("complete"))
    /\ (Emitted("error") \/ srv.pc = "abandoned") => srv.id \notin srv.store

\* the client disconnected during interpretation, nothing was persisted
C17_Witness ==
    /\ srv.pc = "abandoned"
    /\ srv.nInterp > 0
    /\ srv.store = {}

\* C18: interpretation_started and interpretation events are emitted only
\* after both background retrieval tasks have completed.
C18_JoinBeforeInterpretation ==
    (Emitted("interpretation_started") \/ Emitted("interpretation")) =>
        (srv.bgMethod = "done" /\ srv.bgRelation = "done")

\* rag_retrieved and the whole imagery stage happened while a background task
\* was still running, and interpretation started after the join
C18_Witness ==
    /\ Emitted("interpretation")
    /\ srv.overlapped
    /\ srv.bgMethod = "done" /\ srv.bgRelation = "done"

\* C19: when the stream request is rejected no callback has been invoked
\* (no event was dispatched in the session), the page is in step idle with an
\* error message set, and exactly one readingFailed notification was
\* dispatched for the pending id of that submit.
C19_RejectedRequest ==
    [][ (stream = "fetching" /\ stream' = "failed") =>
            /\ lastEvent' = NoEvent /\ hist' = InitHist
            /\ page'.currentStep = "idle"
            /\ page'.error # NoText
            /\ notes'.readingFailed[sessions] = 1
            /\ notes'.readingPending[sessions] = 1
            /\ notes'.readingCreated[sessions] = 0
            /\ notes'.createdSoon[sessions] = 0 ]_vars

\* a second submit was rejected after a first session had streamed events
C19_Witness ==
    /\ stream = "failed"
    /\ sessions = 2
    /\ lastEvent = NoEvent
    /\ nEvents > 0
    /\ page.currentStep = "idle"
    /\ notes.readingFailed[2] = 1

\* C20: a stored session is removed, other than by the user's sign-out, only
\* after more than 30 days of inactivity; a 401 on a request that may be
\* refreshed, with a refresh token stored and last_activity at most 30 days
\* old, leads to a refresh, and a
\* successful refresh to a retry with the new token; with last_activity more
\* than 30 days old no refresh request is sent and the five keys are removed.
C20_LoginOnlyAfterInactivity ==
    [][ /\ (/\ auth.store.refresh_token # 0 /\ auth'.store.refresh_token = 0
             /\ \A r \in 1..MaxRequests :
                    auth.req[r].url = "signout" => auth'.req[r] = auth.req[r]) =>
                inactiveTooLong(auth)
        /\ \A r \in 1..MaxRequests :
            (/\ auth'.last = "unauthorized"
             /\ auth.req[r].st = "inflight" /\ auth'.req[r] # auth.req[r]
             /\ refreshable(auth.req[r])
             /\ auth.store.refresh_token # 0) =>
                IF inactiveTooLong(auth)
                THEN /\ auth'.store = ClearedStore
                     /\ \A q \in 1..MaxRequests : auth'.req[q].st # "refreshing"
                ELSE auth'.isRefreshing
        /\ \A r \in 1..MaxRequests :
            (auth'.last = "refreshed" /\ auth.req[r].st = "refreshing") =>
                /\ auth'.req[r].st = "inflight"
                /\ auth'.req[r].token = auth'.store.access_token
                /\ auth'.store.access_token # auth.store.access_token ]_vars

\* C11: after the cards_selected event of a session with N = 3 or N = 10
\* cards, card number k in position order is shown exactly from k * (T/N)
\* after the event on, whatever other events arrive in the meantime.
C11_RevealPacing ==
    (/\ hist.nCardsSelected = 1
     /\ Len(page.cards) \in {ThreeCardCount, CelticCrossCount}
     /\ 0 \notin clock.reveal) =>
        LET sorted == sortedCards(page.cards)
        IN  \A k \in 0..(Len(sorted) - 1) :
                (\E i \in 1..Len(page.displayedCards) :
                    page.displayedCards[i] = sorted[k + 1])
                <=> clock.sinceCards >= k * intervalPerCard(page)

\* C12: in a session the imagery panel is visible exactly from the earlier of
\* 1 s after the last card was revealed and the first non-empty imagery_chunk.
C12_ImageryPanel ==
    LET due == \/ hist.recvImagery # NoText
               \/ page.allCardsDisplayed /\ clock.sinceLast >= Ticks(BoxDelayMs)
    IN  /\ page.showImageryBox => due
        /\ (due /\ ~page.imageryBoxSoon /\ 0 \notin clock.imageryBox) =>
                page.showImageryBox

\* C13: the interpretation panel is visible once the step has been
\* imagery_generated for 1 s, and whenever the step is interpretation_started
\* or interpretation_streaming (after the zero-delay callback has run).
C13_InterpretationPanel ==
    /\ (/\ page.currentStep = "imagery_generated"
        /\ clock.sinceStep >= Ticks(BoxDelayMs)
        /\ 0 \notin clock.interpBox) => page.showInterpretationBox
    /\ page.currentStep = "interpretation_started" => page.showInterpretationBox
    /\ (page.currentStep = "interpretation_streaming" /\ ~page.interpretationBoxSoon) =>
            page.showInterpretationBox

\* what ProtectedRoute renders: its children only with loading false and a user
rendersChildren(a) == a.route = "protected" /\ ~a.loading /\ a.user

\* C21: ProtectedRoute never redirects to /login while an authentication
\* check, the initial one or a re-check after authStateChanged, is in
\* progress, and never renders its children while user is null.
C21_RouteWaitsForCheck ==
    [][ /\ (auth'.last = "redirect" /\ auth'.route # auth.route) => ~checkRunning(auth)
        /\ rendersChildren(auth') => auth'.user ]_vars

\* C22: once signout() has settled, with the sign-out call answered or
\* failed, none of the five localStorage keys is present until the next
\* sign-in, also when a token refresh of another request was in flight.
C22_SignoutClearsTokens ==
    auth.signedOut => auth.store = ClearedStore

\* the requests whose 401 started the refresh call that is under way
Refreshing(a) == {r \in 1..MaxRequests : a.req[r].st = "refreshing"}

\* C25: at most one token refresh is in flight at any time, and a request
\* that receives 401 while a refresh is in flight is queued instead of
\* starting a second refresh.
C25_OneRefreshInFlight ==
    [][ /\ Cardinality(Refreshing(auth')) <= 1
        /\ auth'.isRefreshing <=> Refreshing(auth') # {}
        /\ \A r \in 1..MaxRequests :
            (/\ auth'.last = "unauthorized"
             /\ auth.req[r].st = "inflight" /\ auth'.req[r] # auth.req[r]
             /\ refreshable(auth.req[r])
             /\ auth.isRefreshing) =>
                /\ auth'.req[r].st = "queued"
                /\ r \in auth'.failedQueue
                /\ Refreshing(auth') = Refreshing(auth) ]_vars

\* a refresh is in flight and another request that received 401 is queued
C25_Witness ==
    /\ auth.last = "unauthorized"
    /\ Cardinality(Refreshing(auth)) = 1
    /\ auth.failedQueue # {}
    /\ \A r \in auth.failedQueue : auth.req[r].st = "queued"

\* C26: when a refresh ends every queued request is settled exactly once,
\* sent again with the new token after a success and rejected after a
\* failure; afterwards isRefreshing is false and the queue is empty; the
\* queue is empty whenever isRefreshing is false; and no queued request
\* waits forever.
C26_QueueSettled ==
    /\ [](~auth.isRefreshing => auth.failedQueue = {})
    /\ [](\A r \in 1..MaxRequests : auth.req[r].st = "queued" <=> r \in auth.failedQueue)
    /\ [][ /\ (auth.isRefreshing /\ ~auth'.isRefreshing) =>
                /\ auth'.failedQueue = {}
                /\ \A r \in auth.failedQueue :
                    IF auth'.last = "refreshed"
                    THEN /\ auth'.req[r].st = "inflight"
                         /\ auth'.req[r].token = auth'.store.access_token
                         /\ auth'.req[r].token # 0
                         /\ auth'.req[r].retry = auth.req[r].retry
                    ELSE auth'.req[r].st = "rejected"
           /\ \A r \in 1..MaxRequests :
                (auth.req[r].st = "queued" /\ auth'.req[r] # auth.req[r]) =>
                    (auth.isRefreshing /\ ~auth'.isRefreshing) ]_vars
    /\ \A r \in 1..MaxRequests :
        (auth.req[r].st = "queued") ~> (auth.req[r].st # "queued")

\* a refresh has succeeded and a request that was queued is sent again
C26_Witness ==
    /\ auth.last = "refreshed"
    /\ ~auth.isRefreshing
    /\ \E r \in 1..MaxRequests :
        /\ auth.req[r].st = "inflight"
        /\ ~auth.req[r].retry
        /\ auth.req[r].token = auth.store.access_token
    /\ \E r \in 1..MaxRequests : auth.req[r].st = "inflight" /\ auth.req[r].retry

\* the endpoints of the model
Urls == {"me", "signin", "signout", "profile"}

\* the call to endpoint u made with request r is not settled yet
Pending(a, r, u) ==
    a.req[r].url = u /\ a.req[r].st \in {"inflight", "refreshing", "queued"}

\* C30: the 401 interceptor re-sends no request without bound: the request
\* that started a refresh is sent again once after it, a 401 on that retry
\* is returned to the caller without another refresh, a 401 from the sign-in
\* endpoint starts no refresh, and every call that was sent is settled after
\* finitely many sends.
C30_BoundedResend ==
    /\ [][ \A r \in 1..MaxRequests :
            /\ (auth'.last = "refreshed" /\ auth.req[r].st = "refreshing") =>
                    (auth'.req[r].st = "inflight" /\ auth'.req[r].retry)
            /\ (/\ auth'.last = "unauthorized"
                /\ auth.req[r].st = "inflight" /\ auth'.req[r] # auth.req[r]
                /\ (auth.req[r].retry \/ auth.req[r].url = "signin")) =>
                    /\ auth'.req[r].st = "rejected"
                    /\ Refreshing(auth') = Refreshing(auth)
                    /\ auth'.isRefreshing = auth.isRefreshing ]_vars
    /\ \A r \in 1..MaxRequests : \A u \in Urls :
        Pending(auth, r, u) ~> ~Pending(auth, r, u)

\* C27: every readingPending notification of the home page is eventually
\* followed by a readingCreated or a readingFailed notification with the
\* same pendingId, however the stream ends.
C27_PendingResolved ==
    \A i \in 1..MaxSessions :
        (notes.readingPending[i] > 0) ~>
            (notes.readingCreated[i] > 0 \/ notes.readingFailed[i] > 0)

----------------------------------------------------------------------------
(* HomePage: the request of createReadingStream, built from the URL         *)
(* parameter ?spread= and the profile of useAuth().                         *)

SpreadParams == {Null, "three_card", "celtic_cross"}

Profiles ==
    [ present          : {TRUE},
      preferred_spread : {Undefined, "auto", "three_card", "celtic_cross", "work_cycle"},
      language         : {"zh", "en"} ]

formVars == <<page, stream, nEvents, sessions, lastEvent, hist, replayVars,
              notes, clock, srv, auth, sse, sidebar>>

\* the first argument of tarotAPI.createReadingStream in handleSubmit
streamRequest(selectedSpread, profile) ==
    LET finalSpread == IF selectedSpread # Null THEN selectedSpread ELSE "auto"
    IN  [ user_selected_spread |-> IF finalSpread = "auto" THEN Undefined ELSE finalSpread,
          source_page          |-> "home",
          user_profile         |-> IF profile.present
                                   THEN [ present          |-> TRUE,
                                          preferred_spread |-> profile.preferred_spread,
                                          language         |-> profile.language ]
                                   ELSE NoProfile ]

\* the home page is opened with or without ?spread=
OpenHome ==
    /\ \E sp \in SpreadParams :
        form' = [InitForm EXCEPT !.selectedSpread = sp, !.profile = form.profile]
    /\ form' # form
    /\ UNCHANGED formVars

\* AuthProvider delivers the profile of the user
ProfileLoaded ==
    /\ \E p \in Profiles : form' = [form EXCEPT !.profile = p]
    /\ form' # form
    /\ UNCHANGED formVars

\* handleSubmit calls createReadingStream
FormSubmit ==
    /\ ~form.sent
    /\ form' = [form EXCEPT !.sent = TRUE,
                            !.request = streamRequest(form.selectedSpread, form.profile)]
    /\ UNCHANGED formVars

FormNext ==
    \/ OpenHome
    \/ ProfileLoaded
    \/ FormSubmit

FormSpec == Init /\ [][FormNext]_vars

\* C23: when the spread was chosen through the URL parameter the request's
\* user_profile carries no preferred_spread; preferred_spread is passed only
\* when no spread was chosen through the URL.
C23_PreferenceProtected ==
    [][ (form'.sent /\ ~form.sent /\ form.selectedSpread # Null) =>
            form'.request.user_profile.preferred_spread = Undefined ]_vars

----------------------------------------------------------------------------
(* createReadingStream: the read loop over the response body.  Text is a   *)
(* sequence of pieces; a read may end after any piece, also inside          *)
(* "event: " or "data: " and before the line feed.                          *)

NL == "\n"

EventPrefix == <<"event", ": ">>
DataPrefix == <<"data", ": ">>

\* the texts JSON.parse accepts
JsonTexts == { <<"{", "a}">>, <<"{", "b}">> }

\* the event names with a branch in the loop
CallbackOf ==
    [ progress       |-> "onProgress",
      imagery_chunk  |-> "onProgress",
      interpretation |-> "onInterpretation",
      error          |-> "onError",
      complete       |-> "onComplete" ]

\* the lines a body is made of: event lines, among them an unknown event
\* name, data lines with a JSON text, a malformed text and no text, and the
\* empty line
SseLines ==
    { EventPrefix \o <<k>> : k \in {"progress", "complete", "ping"} }
        \cup { DataPrefix \o d : d \in JsonTexts \cup { <<"{">>, <<>> } }
        \cup { <<>> }

RECURSIVE join(_)
\* the lines, each followed by a line feed
join(ls) == IF ls = <<>> THEN <<>> ELSE Head(ls) \o <<NL>> \o join(Tail(ls))

Bodies ==
    { join(ls) : ls \in UNION { [1..n -> SseLines] : n \in 0..MaxSseLines } }

startsWith(line, prefix) ==
    Len(line) >= Len(prefix) /\ SubSeq(line, 1, Len(prefix)) = prefix

RECURSIVE split(_)
\* buffer.split('\n'): the last element is what follows the last line feed
split(text) ==
    IF \A i \in 1..Len(text) : text[i] # NL THEN <<text>>
    ELSE LET i == CHOOSE j \in 1..Len(text) :
                    text[j] = NL /\ \A k \in 1..(j - 1) : text[k] # NL
         IN  <<SubSeq(text, 1, i - 1)>> \o split(SubSeq(text, i + 1, Len(text)))

\* the body of the for loop, for one complete line
processLine(s, line) ==
    IF startsWith(line, EventPrefix)
    THEN [s EXCEPT !.currentEvent = SubSeq(line, Len(EventPrefix) + 1, Len(line))]
    ELSE IF startsWith(line, DataPrefix)
    THEN LET dataStr == SubSeq(line, Len(DataPrefix) + 1, Len(line))
             name == IF Len(s.currentEvent) = 1 THEN s.currentEvent[1] ELSE ""
         IN  IF dataStr = <<>> THEN s
             ELSE IF dataStr \in JsonTexts /\ name \in DOMAIN CallbackOf
             THEN [s EXCEPT !.calls = Append(@, [cb |-> CallbackOf[name], data |-> dataStr]),
                            !.currentEvent = <<>>]
             ELSE [s EXCEPT !.currentEvent = <<>>]
    ELSE s

RECURSIVE processLines(_, _)
processLines(s, lines) ==
    IF lines = <<>> THEN s
    ELSE processLines(processLine(s, Head(lines)), Tail(lines))

\* a loop whose currentEvent is declared inside the while body
readChunkFreshEvent(s, value) ==
    LET lines == split(s.buffer \o value)
    IN  [processLines([s EXCEPT !.currentEvent = <<>>], SubSeq(lines, 1, Len(lines) - 1))
            EXCEPT !.buffer = lines[Len(lines)]]

\* one iteration of while (true) after reader.read() returned value
readChunk(s, value) ==
    LET lines == split(s.buffer \o value)
    IN  [processLines(s, SubSeq(lines, 1, Len(lines) - 1))
            EXCEPT !.buffer = lines[Len(lines)]]

sseVars == <<page, stream, nEvents, sessions, lastEvent, hist, replayVars,
             notes, clock, srv, auth, form, sidebar>>

\* fetch resolved: the server will send some body, with or without its last
\* line feed
SseOpen ==
    /\ sse.st = "closed"
    /\ \E b \in Bodies : \E drop \in {0, 1} :
        /\ drop <= Len(b)
        /\ sse' = [InitSse EXCEPT !.st = "reading",
                                  !.body = SubSeq(b, 1, Len(b) - drop)]
    /\ UNCHANGED sseVars

\* reader.read() returns the next pieces of the body, as many as the network
\* delivered
SseRead ==
    /\ sse.st = "reading"
    /\ \E k \in 1..Len(sse.body) :
        LET value == SubSeq(sse.body, 1, k)
            s == readChunk(sse, value)
        IN  sse' = [s EXCEPT !.body = SubSeq(sse.body, k + 1, Len(sse.body)),
                             !.consumed = sse.consumed \o value,
                             !.cut = @ \/ s.buffer # <<>>]
    /\ UNCHANGED sseVars

\* reader.read() returns done: break
SseDone ==
    /\ sse.st = "reading"
    /\ sse.body = <<>>
    /\ sse' = [sse EXCEPT !.st = "done"]
    /\ UNCHANGED sseVars

SseNext ==
    \/ SseOpen
    \/ SseRead
    \/ SseDone

SseSpec == Init /\ [][SseNext]_vars

\* the loop run over a text delivered by a single read
readAll(text) == readChunk(InitSse, text)

\* the complete lines of a text
linesOf(text) == LET ls == split(text) IN SubSeq(ls, 1, Len(ls) - 1)

isEvent(line) == startsWith(line, EventPrefix)
isData(line) == startsWith(line, DataPrefix)

\* every data line follows an event line directly
Regular(lines) ==
    \A i \in 1..Len(lines) : isData(lines[i]) => (i > 1 /\ isEvent(lines[i - 1]))

RECURSIVE eventsFrom(_, _)
\* the events of a text: an event line with one of the five names directly
\* followed by a data line with a JSON text, in the order of the text
eventsFrom(lines, i) ==
    IF i >= Len(lines) THEN <<>>
    ELSE LET name == SubSeq(lines[i], Len(EventPrefix) + 1, Len(lines[i]))
             dataStr == SubSeq(lines[i + 1], Len(DataPrefix) + 1, Len(lines[i + 1]))
         IN  IF /\ isEvent(lines[i]) /\ isData(lines[i + 1])
                /\ Len(name) = 1 /\ name[1] \in DOMAIN CallbackOf
                /\ dataStr \in JsonTexts
             THEN <<[cb |-> CallbackOf[name[1]], data |-> dataStr]>>
                        \o eventsFrom(lines, i + 1)
             ELSE eventsFrom(lines, i + 1)

----------------------------------------------------------------------------
(* Sidebar of the home page: the pending list, the notifications of the    *)
(* home page and the reloads of the history list.                          *)

Questions == {"q1", "q2"}

PendingListLimit == 10

sidebarVars == <<page, stream, nEvents, sessions, lastEvent, hist, replayVars,
                 notes, clock, srv, auth, form, sse>>

\* the ids of the items of the pending list
pendingIds(sb) == {sb.pendingReadings[i].id : i \in DOMAIN sb.pendingReadings}

\* loadReadings up to its await: a listReadings call is sent
loadReadings(sb) ==
    IF sb.user THEN [sb EXCEPT !.listRequests = @ + 1] ELSE sb

\* the listener of readingPending
handleReadingPending(sb, detail) ==
    IF detail.pendingId \in pendingIds(sb) THEN sb
    ELSE LET newItem == [id |-> detail.pendingId, question |-> detail.question]
             all == <<newItem>> \o sb.pendingReadings
         IN  [sb EXCEPT !.pendingReadings = SubSeq(all, 1, Min(Len(all), PendingListLimit))]

\* the listener of readingCreated for a detail with a pendingId
handleReadingCreated(sb, detail) ==
    LET keep(item) == item.id # detail.pendingId
    IN  loadReadings([sb EXCEPT !.pendingReadings = SelectSeq(@, keep)])

\* the listener of readingFailed for a detail with a pendingId
handleReadingFailed(sb, detail) ==
    LET keep(item) == item.id # detail.pendingId
    IN  [sb EXCEPT !.pendingReadings = SelectSeq(@, keep)]

\* loadReadings after its await: the pending items whose question is the
\* question of a listed reading are dropped
listLoaded(sb, readings) ==
    LET keep(pending) == pending.question \notin readings
    IN  [sb EXCEPT !.pendingReadings = SelectSeq(@, keep)]

Did(sb, op, id) == [sb EXCEPT !.last = [op |-> op, id |-> id]]

\* AuthProvider sets a user object: the effect with [user, loadReadings] runs
SbUserChanged ==
    /\ sidebar.listRequests < MaxListRequests
    /\ sidebar' = Did(loadReadings([sidebar EXCEPT !.user = TRUE]), "userChanged", 0)
    /\ UNCHANGED sidebarVars

\* the user signs out: user is null, the effect empties both lists
SbSignout ==
    /\ sidebar.user
    /\ sidebar' = Did([sidebar EXCEPT !.user = FALSE, !.pendingReadings = <<>>],
                      "signout", 0)
    /\ UNCHANGED sidebarVars

\* the home page is loaded again: page and Sidebar start afresh, the
\* database keeps its readings
SbMount ==
    /\ sidebar' = [InitSidebar EXCEPT !.stored = sidebar.stored,
                                      !.issued = sidebar.issued]
    /\ sidebar' # sidebar
    /\ UNCHANGED sidebarVars

\* handleSubmit of the home page dispatches readingPending
SbSubmit ==
    /\ sidebar.user /\ sidebar.idle
    /\ sidebar.issued < MaxReadings
    /\ \E q \in Questions :
        LET id == sidebar.issued + 1
        IN  sidebar' = Did([handleReadingPending(sidebar, [pendingId |-> id, question |-> q])
                                EXCEPT !.idle = FALSE, !.running = id,
                                       !.question = q, !.issued = id],
                           "readingPending", id)
    /\ UNCHANGED sidebarVars

\* the reading was saved and complete arrived: onComplete's timeout
\* dispatches readingCreated
SbCreated ==
    /\ sidebar.running # 0
    /\ sidebar.listRequests < MaxListRequests
    /\ sidebar' = Did([handleReadingCreated(sidebar, [pendingId |-> sidebar.running])
                            EXCEPT !.running = 0,
                                   !.stored = @ \cup {sidebar.question}],
                      "readingCreated", sidebar.running)
    /\ UNCHANGED sidebarVars

\* onError or the catch block of handleSubmit dispatches readingFailed
SbFailed ==
    /\ sidebar.running # 0
    /\ sidebar' = Did([handleReadingFailed(sidebar, [pendingId |-> sidebar.running])
                            EXCEPT !.running = 0, !.idle = TRUE],
                      "readingFailed", sidebar.running)
    /\ UNCHANGED sidebarVars

\* a listReadings call is answered with the readings of the database
SbListLoaded ==
    /\ sidebar.listRequests > 0
    /\ sidebar' = Did([listLoaded(sidebar, sidebar.stored) EXCEPT !.listRequests = @ - 1],
                      "listLoaded", 0)
    /\ UNCHANGED sidebarVars

\* a listReadings call fails: the catch block logs
SbListFailed ==
    /\ sidebar.listRequests > 0
    /\ sidebar' = Did([sidebar EXCEPT !.listRequests = @ - 1], "listFailed", 0)
    /\ UNCHANGED sidebarVars

SidebarNext ==
    \/ SbUserChanged
    \/ SbSignout
    \/ SbMount
    \/ SbSubmit
    \/ SbCreated
    \/ SbFailed
    \/ SbListLoaded
    \/ SbListFailed

SidebarSpec == Init /\ [][SidebarNext]_vars

\* C28: an item leaves the pending list only through a readingCreated or
\* readingFailed notification for that same reading, or when the user signs
\* out (or the page itself is left): never because of another reading, a
\* reload of the history list, or an equal question text.
C28_PendingRemovedByOwnEvent ==
    [][ \A id \in pendingIds(sidebar) \ pendingIds(sidebar') :
            \/ sidebar'.last.op \in {"readingCreated", "readingFailed"}
                    /\ sidebar'.last.id = id
            \/ sidebar'.last.op \in {"signout", "mount"} ]_vars

----------------------------------------------------------------------------
(* A session after a failed one: the first page goes through a session     *)
(* that ends with an error event, then it and a freshly loaded page are    *)
(* submitted and fed the same event sequence.                              *)

ErrorEvent == Ev("error", "", <<8>>, <<>>, Null)

\* the events of a session before its terminal event
OpenEvents == { ev \in Events : ev.kind \notin {"error", "complete"} }

\* the earlier session is submitted on the first page
PriorStart ==
    /\ stream = "none"
    /\ page' = Effects(handleSubmit(page))
    /\ stream' = "prior"
    /\ UNCHANGED <<nEvents, sessions, lastEvent, hist, replayVars, extVars>>

\* the earlier session receives an event
PriorFeed ==
    /\ stream = "prior"
    /\ nEvents < MaxPriorEvents
    /\ \E ev \in OpenEvents : page' = Effects(Dispatch(page, ev))
    /\ nEvents' = nEvents + 1
    /\ UNCHANGED <<stream, sessions, lastEvent, hist, replayVars, extVars>>

\* the earlier session ends with an error event
PriorError ==
    /\ stream = "prior"
    /\ page' = Effects(Dispatch(page, ErrorEvent))
    /\ stream' = "failed"
    /\ UNCHANGED <<nEvents, sessions, lastEvent, hist, replayVars, extVars>>

\* the later session is submitted on the first page, and a first session on
\* the freshly loaded page; zero-delay callbacks have run before a user can act
ResumeStart ==
    /\ stream = "failed"
    /\ page.currentStep = "idle"
    /\ ~page.imageryBoxSoon /\ ~page.interpretationBoxSoon
    /\ page' = Effects(handleSubmit(page))
    /\ twin' = Effects(handleSubmit(twin))
    /\ stream' = "open"
    /\ UNCHANGED <<nEvents, sessions, lastEvent, hist, tape, twinPos, extVars>>

ResumeNext ==
    \/ PriorStart
    \/ PriorFeed
    \/ PriorError
    \/ ResumeStart
    \/ ReplayFeed
    \/ ReplayEnd
    \/ TwinFeed
    \/ ReplayTypingTick
    \/ RevealTimer
    \/ InterpretationBoxTimer
    \/ ImageryBoxDelayFire
    \/ ImageryBoxSoonFire
    \/ InterpretationBoxSoonFire
    \/ TwinTypingTick
    \/ TwinRevealTimer
    \/ TwinInterpretationBoxTimer
    \/ TwinImageryBoxDelayFire
    \/ TwinImageryBoxSoonFire
    \/ TwinInterpretationBoxSoonFire

ResumeSpec == Init /\ [][ResumeNext]_vars

\* what the page shows: the reading state, both panels and the error
Shown(st) ==
    [ state                 |-> ClientReadingState(st),
      showImageryBox        |-> st.showImageryBox,
      showInterpretationBox |-> st.showInterpretationBox,
      error                 |-> st.error ]

\* the part of it that the order of timers and events cannot change on a
\* freshly loaded page
Settled(st) ==
    [ state |-> ClientReadingState(st),
      error |-> st.error ]

\* the later session is submitted and none of its events has arrived
NothingReceived ==
    /\ stream \in {"open", "done"}
    /\ tape = <<>>

\* C29: for the same event sequence a session submitted after a session that
\* ended in error reaches the same state as a first session on a freshly
\* loaded page: before its first event it shows what the fresh page shows,
\* whatever timers of the earlier session fire, and once every event is
\* consumed and every timer has fired its reading state and error are those
\* of the fresh page.
C29_SessionsIndependent ==
    /\ NothingReceived => Shown(page) = Shown(twin)
    /\ ReplayFinished => Settled(page) = Settled(twin)

====
